---- MODULE Spec2Model ----
(***************************************************************************)
(* The AST-to-IR lowering core of fcc (src/src/emitter.c) as a state       *)
(* machine.  The recursive descent over the AST is unfolded with an        *)
(* explicit stack of suspended handlers: each handler is one action up to  *)
(* the emitterCode call it makes and one action for what it does after     *)
(* that call returns.  The AST itself is the input: every action draws     *)
(* the next node the traversal meets, and `fuel` bounds the number of AST  *)
(* nodes of the module.                                                    *)
(***************************************************************************)
EXTENDS Integers, Sequences, FiniteSets, TLC

\* AST nodes (fn-impl and statement nodes) of the module being lowered
MaxNodes == 4
\* symbols (params, ids, scopes) below a function symbol
MaxSyms == 4
\* parameters of a function whose returns are lowered
MaxParams == 2
\* return statements of such a function
MaxReturns == 1

VARIABLES
    arch,        \* ctx->arch
    pc,          \* "module": in emitterModule's loop; "body": inside emitterFnImpl; "done"
    fuel,        \* AST nodes not yet visited
    returnTo,    \* ctx->returnTo   (0 is the null pointer)
    breakTo,     \* ctx->breakTo
    continueTo,  \* ctx->continueTo
    blocks,      \* the blocks owned by ctx->ir, in creation order
    block,       \* the `block` threaded through the active emitterCode loop
    stack,       \* suspended handlers, innermost last
    fn,          \* Node->symbol of the fn-impl being lowered
    offset,      \* Symbol->offset of each symbol of fn
    frame,       \* emitterFnImpl's locals lastOffset and stacksize
    regs,        \* the register allocator: TRUE for a register in use
    lastReturn,  \* what the last emitterReturn did
    loops,       \* the loops emitterLoop has finished lowering
    xfers,       \* the break/continue statements lowered
    atEntry      \* the three jump targets as they were when emitterFnImpl was called

vars == <<arch, pc, fuel, returnTo, breakTo, continueTo, blocks, block, stack,
          fn, offset, frame, regs, lastReturn, loops, xfers, atEntry>>

RECURSIVE ParamLoop(_, _, _, _, _, _)
RECURSIVE emitterScopeAssignOffsets(_, _, _, _, _)
RECURSIVE ScopeLoop(_, _, _, _, _, _)
RECURSIVE ScopeLoopReuse(_, _, _, _, _, _)
RECURSIVE ScopeLoopStoreFirst(_, _, _, _, _, _)
RECURSIVE SymTables(_)
RECURSIVE IsAncestorOrSelf(_, _, _)
RECURSIVE SortedSeq(_)
RECURSIVE SumSizes(_, _, _)
RECURSIVE ReachFrom(_, _)
RECURSIVE Replay(_, _, _)

(***************************************************************************)
(* Types and the architecture descriptor                                   *)
(***************************************************************************)
Architectures == {[wordsize |-> 4], [wordsize |-> 8]}

\* type handles of objects: a byte, a machine word, a two-word struct
Types == {"char", "word", "pair"}

\* return types of functions
RetTypes == Types \cup {"void"}

typeGetSize(a, dt) ==
    CASE dt = "void" -> 0
      [] dt = "char" -> 1
      [] dt = "word" -> a.wordsize
      [] dt = "pair" -> 2 * a.wordsize

(***************************************************************************)
(* Symbols.  A function symbol's children and all their descendants are    *)
(* kept in one table in pre-order; `parent` is the index of the enclosing  *)
(* scope, 0 for a child of the function symbol itself.                     *)
(***************************************************************************)
Sym(tag, dt, parent) == [tag |-> tag, dt |-> dt, parent |-> parent]

IsAncestorOrSelf(t, p, i) ==
    IF i = p THEN TRUE
    ELSE IF i = 0 THEN FALSE
    ELSE IsAncestorOrSelf(t, p, t[i].parent)

\* the scopes a symbol appended to table t can be declared in
OpenScopes(t) ==
    {0} \cup {p \in 1..Len(t) : t[p].tag = "symScope" /\ IsAncestorOrSelf(t, p, Len(t))}

\* params come first among the function symbol's children
Extensions(t) ==
    {Sym("symParam", dt, 0) : dt \in {d \in Types : \A i \in 1..Len(t) : t[i].tag = "symParam"}}
    \cup {Sym("symId", dt, p) : dt \in Types, p \in OpenScopes(t)}
    \cup {Sym("symScope", "void", p) : p \in OpenScopes(t)}

SymTables(n) ==
    IF n = 0 THEN {<<>>}
    ELSE LET prev == SymTables(n - 1)
         IN  prev \cup UNION {{Append(t, s) : s \in Extensions(t)} :
                              t \in {u \in prev : Len(u) = n - 1}}

SortedSeq(S) ==
    IF S = {} THEN <<>>
    ELSE LET m == CHOOSE x \in S : \A y \in S : x <= y
         IN  <<m>> \o SortedSeq(S \ {m})

\* Scope->children as a vector, in declaration order
Children(syms, Scope) == SortedSeq({i \in 1..Len(syms) : syms[i].parent = Scope})

(***************************************************************************)
(* The IR layer, the value lowerer and the register allocator, as far as   *)
(* the core uses them.  A block is the sequence of what was appended to    *)
(* it; `kind` and `fn` record which handler created it, for which function.*)
(***************************************************************************)
Instr(tag, a, b) == [tag |-> tag, a |-> a, b |-> b]

IsTerminator(i) == i.tag \in {"jump", "branch", "epilogue"}

irBlockCreate(bs, kind, f) == Append(bs, [kind |-> kind, fn |-> f, instrs |-> <<>>])

irAppend(bs, blk, i) == [bs EXCEPT ![blk].instrs = Append(@, i)]

irJump(bs, blk, to) == irAppend(bs, blk, Instr("jump", to, 0))

irFnPrologue(bs, blk, stacksize) == irAppend(bs, blk, Instr("prologue", stacksize, 0))

irFnEpilogue(bs, blk) == irAppend(bs, blk, Instr("epilogue", 0, 0))

emitterBranchOnValue(bs, blk, ifTrue, ifFalse) == irAppend(bs, blk, Instr("branch", ifTrue, ifFalse))

\* emitterValue / emitterDecl lowering a statement into blk (no block split)
emitterValue(bs, blk) == irAppend(bs, blk, Instr("op", 0, 0))

Regs == {"rax", "rbx", "rcx"}

Operand(tag, base) == [tag |-> tag, base |-> base]

regTake(st, r) == [regs |-> [st.regs EXCEPT ![r] = TRUE], log |-> Append(st.log, <<"alloc", r>>)]

regFree(st, r) == [regs |-> [st.regs EXCEPT ![r] = FALSE], log |-> Append(st.log, <<"free", r>>)]

operandFree(st, op) == IF op.base \in Regs THEN regFree(st, op.base) ELSE st

(***************************************************************************)
(* emitterScopeAssignOffsets and the parameter pass of emitterFnImpl       *)
(***************************************************************************)
\* faulty variant: the offset a nested scope returns is dropped, so the next
\* sibling reuses the nested scope's space
ScopeLoopReuse(a, syms, kids, n, off, offs) ==
    IF n > Len(kids) THEN [offset |-> off, offs |-> offs]
    ELSE LET Symbol == kids[n]
         IN  IF syms[Symbol].tag = "symScope"
             THEN LET r == emitterScopeAssignOffsets(a, syms, Symbol, off, offs)
                  IN  ScopeLoopReuse(a, syms, kids, n + 1, off, r.offs)
             ELSE IF syms[Symbol].tag = "symId"
             THEN LET o == off - typeGetSize(a, syms[Symbol].dt)
                  IN  ScopeLoopReuse(a, syms, kids, n + 1, o, [offs EXCEPT ![Symbol] = o])
             ELSE ScopeLoopReuse(a, syms, kids, n + 1, off, offs)

\* faulty variant: Symbol->offset is stored before the decrement
ScopeLoopStoreFirst(a, syms, kids, n, off, offs) ==
    IF n > Len(kids) THEN [offset |-> off, offs |-> offs]
    ELSE LET Symbol == kids[n]
         IN  IF syms[Symbol].tag = "symScope"
             THEN LET r == emitterScopeAssignOffsets(a, syms, Symbol, off, offs)
                  IN  ScopeLoopStoreFirst(a, syms, kids, n + 1, r.offset, r.offs)
             ELSE IF syms[Symbol].tag = "symId"
             THEN LET o == off - typeGetSize(a, syms[Symbol].dt)
                  IN  ScopeLoopStoreFirst(a, syms, kids, n + 1, o, [offs EXCEPT ![Symbol] = off])
             ELSE ScopeLoopStoreFirst(a, syms, kids, n + 1, off, offs)

\* the for loop of emitterScopeAssignOffsets, from child n on
ScopeLoop(a, syms, kids, n, off, offs) ==
    IF n > Len(kids) THEN [offset |-> off, offs |-> offs]
    ELSE LET Symbol == kids[n]
         IN  IF syms[Symbol].tag = "symScope"
             THEN LET r == emitterScopeAssignOffsets(a, syms, Symbol, off, offs)
                  IN  ScopeLoop(a, syms, kids, n + 1, r.offset, r.offs)
             ELSE IF syms[Symbol].tag = "symId"
             THEN LET o == off - typeGetSize(a, syms[Symbol].dt)
                  IN  ScopeLoop(a, syms, kids, n + 1, o, [offs EXCEPT ![Symbol] = o])
             ELSE ScopeLoop(a, syms, kids, n + 1, off, offs)

emitterScopeAssignOffsets(a, syms, Scope, off, offs) ==
    ScopeLoop(a, syms, Children(syms, Scope), 1, off, offs)

\* faulty variant: >= for >
ParamBaseAtLeast(a, f) ==
    IF typeGetSize(a, f.ret) >= a.wordsize THEN 3 * a.wordsize ELSE 2 * a.wordsize

\* lastOffset before the parameter loop
ParamBase(a, f) ==
    IF typeGetSize(a, f.ret) > a.wordsize THEN 2 * a.wordsize + a.wordsize ELSE 2 * a.wordsize

\* faulty variant: every param taken to be one word
ParamStepWord(a, dt) == a.wordsize

\* what the parameter loop adds to lastOffset for a param of type dt
ParamStep(a, dt) == typeGetSize(a, dt)

\* the parameter loop of emitterFnImpl, from child n on
ParamLoop(a, syms, kids, n, lastOffset, offs) ==
    IF n > Len(kids) THEN [lastOffset |-> lastOffset, offs |-> offs]
    ELSE LET Symbol == kids[n]
         IN  IF syms[Symbol].tag # "symParam"
             THEN [lastOffset |-> lastOffset, offs |-> offs]
             ELSE ParamLoop(a, syms, kids, n + 1, lastOffset + ParamStep(a, syms[Symbol].dt),
                            [offs EXCEPT ![Symbol] = lastOffset])

(***************************************************************************)
(* emitterReturn up to its jump: the register traffic and the hidden       *)
(* pointer.  `in` is the return node: whether it has an expression, the    *)
(* expression's type, the operand emitterValue hands back for it and the   *)
(* register regAlloc picks for tempRef.                                    *)
(***************************************************************************)
ReturnNode(hasExpr, dt, op, temp) == [hasExpr |-> hasExpr, dt |-> dt, op |-> op, temp |-> temp]

NoReturn == [log |-> <<>>, before |-> [r \in Regs |-> FALSE], hasExpr |-> FALSE,
             retInTemp |-> FALSE, hidden |-> 0, error |-> FALSE, n |-> 0]

\* faulty variant: the source value is not freed
FreeSourceNever(st, op) == st

\* operandFree(Ret) of the retInTemp branch
FreeSource(st, op) == operandFree(st, op)

\* retInTemp
RetInTemp(a, dt) == typeGetSize(a, dt) > a.wordsize

emitterReturn(a, rs, in) ==
    IF ~in.hasExpr
    THEN [regs |-> rs, log |-> <<>>, retInTemp |-> FALSE, hidden |-> 0, error |-> FALSE]
    ELSE LET s0 == [regs |-> rs, log |-> <<>>]
             \* Ret = emitterValue(...): the value lowerer holds Ret's register
             s1 == IF in.op.base \in Regs THEN regTake(s0, in.op.base) ELSE s0
             retInTemp == RetInTemp(a, in.dt)
             s2 == IF retInTemp THEN FreeSource(regTake(s1, in.temp), in.op) ELSE s1
             Ret == IF retInTemp THEN Operand("reg", in.temp) ELSE in.op
             granted == ~s2.regs["rax"]
             s3 == IF granted THEN regFree(regTake(s2, "rax"), "rax") ELSE s2
             s4 == operandFree(s3, Ret)
         IN  [regs |-> s4.regs, log |-> s4.log, retInTemp |-> retInTemp,
              hidden |-> IF retInTemp THEN 2 * a.wordsize ELSE 0,
              error |-> ~granted /\ Ret.base # "rax"]

FreeRegs(rs) == {r \in Regs : ~rs[r]}

\* the operands emitterValue can hand back for a value of type dt
ValueOperands(a, rs, dt) ==
    {Operand("mem", "rbp")}
    \cup {Operand("mem", r) : r \in FreeRegs(rs)}
    \cup {Operand("reg", r) : r \in {x \in FreeRegs(rs) : typeGetSize(a, dt) <= a.wordsize}}

\* a checked AST returns the declared type or converts between scalars
Compatible(dt, ret) == dt = ret \/ {dt, ret} \subseteq {"char", "word"}

ReturnNodes(a, rs, f) ==
    {ReturnNode(FALSE, "void", Operand("lit", "none"), "rax")}
    \cup UNION {UNION {{ReturnNode(TRUE, dt, op, t) :
                         t \in IF RetInTemp(a, dt)
                               THEN FreeRegs(rs) \ {op.base}
                               ELSE {"rax"}} :
                       op \in ValueOperands(a, rs, dt)} :
                dt \in {d \in Types : Compatible(d, f.ret)}}

(***************************************************************************)
(* The state machine                                                       *)
(***************************************************************************)
\* a suspended handler: the emitterCode call it is waiting for (which jumps
\* to `cont` when the code node ends) and the handler's own locals
Frame(kind, cont, continuation, body, check, other, oldBreakTo, oldContinueTo, from, isDo) ==
    [kind |-> kind, cont |-> cont, continuation |-> continuation, body |-> body,
     check |-> check, other |-> other, oldBreakTo |-> oldBreakTo,
     oldContinueTo |-> oldContinueTo, from |-> from, isDo |-> isDo]

Top == stack[Len(stack)]

Pop == SubSeq(stack, 1, Len(stack) - 1)

\* the loop or iter frames enclosing the statement being lowered
LoopFrames == {i \in 1..Len(stack) : stack[i].kind \in {"loop", "iter"}}

Innermost == stack[CHOOSE i \in LoopFrames : \A j \in LoopFrames : j <= i]

\* the fn-impl nodes met so far
CurFn == Cardinality({i \in 1..Len(blocks) : blocks[i].kind = "entry"})

NewBlock == Len(blocks) + 1

InitWith(archs, nodes, heldRegs) ==
    /\ arch \in archs
    /\ pc = "module"
    /\ fuel = nodes
    /\ returnTo = 0
    /\ breakTo = 0
    /\ continueTo = 0
    /\ blocks = <<>>
    /\ block = 0
    /\ stack = <<>>
    /\ fn = [ret |-> "void", syms |-> <<>>]
    /\ offset = <<>>
    /\ frame = [base |-> 0, lastOffset |-> 0, stacksize |-> 0]
    /\ regs \in {[r \in Regs |-> r \in held] : held \in heldRegs}
    /\ lastReturn = NoReturn
    /\ loops = {}
    /\ xfers = {}
    /\ atEntry = [returnTo |-> 0, breakTo |-> 0, continueTo |-> 0]

\* emitterFnImpl up to its call of emitterCode (the symbol mangler only sets
\* the label)
emitterFnImpl(f) ==
    /\ LET kids == Children(f.syms, 0)
           base == ParamBase(arch, f)
           params == ParamLoop(arch, f.syms, kids, 1, base, [i \in 1..Len(f.syms) |-> 0])
           locals == emitterScopeAssignOffsets(arch, f.syms, 0, 0, params.offs)
           stacksize == -locals.offset
           entry == NewBlock
           epilogue == NewBlock + 1
           created == irBlockCreate(irBlockCreate(blocks, "entry", CurFn + 1),
                                    "epilogue", CurFn + 1)
       IN  /\ fn' = f
           /\ offset' = locals.offs
           /\ frame' = [base |-> base, lastOffset |-> params.lastOffset, stacksize |-> stacksize]
           /\ atEntry' = [returnTo |-> returnTo, breakTo |-> breakTo, continueTo |-> continueTo]
           /\ returnTo' = epilogue
           /\ blocks' = irFnPrologue(created, entry, stacksize)
           /\ block' = entry
           /\ stack' = <<Frame("fn", epilogue, 0, 0, 0, 0, 0, 0, 0, FALSE)>>
    /\ pc' = "body"
    /\ fuel' = fuel - 1
    /\ lastReturn' = NoReturn
    /\ UNCHANGED <<arch, breakTo, continueTo, regs, loops, xfers>>

\* emitterModule's loop reaching an fn-impl child, one of fns (its other
\* children, using, decl and empty, leave the emitter context as it is)
emitterModule(fns) ==
    /\ pc = "module"
    /\ fuel > 0
    /\ \E f \in fns : emitterFnImpl(f)

\* irJump(block, continuation), the last line of emitterCode
CodeEnd(bs, blk, continuation) == irJump(bs, blk, continuation)

\* the body's emitterCode returns to emitterFnImpl, which returns to emitterModule
emitterFnImplEnd ==
    /\ pc = "body"
    /\ Top.kind = "fn"
    /\ blocks' = irFnEpilogue(CodeEnd(blocks, block, Top.cont), Top.cont)
    /\ stack' = Pop
    /\ block' = 0
    /\ pc' = "module"
    /\ UNCHANGED <<arch, fuel, returnTo, breakTo, continueTo, fn, offset, frame, regs,
                   lastReturn, loops, xfers, atEntry>>

\* emitterModule runs out of children; emitter() emits the IR and frees the context
emitterModuleEnd ==
    /\ pc = "module"
    /\ pc' = "done"
    /\ UNCHANGED <<arch, fuel, returnTo, breakTo, continueTo, blocks, block, stack, fn,
                   offset, frame, regs, lastReturn, loops, xfers, atEntry>>

Statement == pc = "body" /\ fuel > 0 /\ fuel' = fuel - 1

\* emitterLine, astBranch: emitterBranch up to the first emitterCode
emitterBranch ==
    /\ Statement
    /\ LET continuation == NewBlock
           ifTrue == NewBlock + 1
           ifFalse == NewBlock + 2
           created == irBlockCreate(irBlockCreate(irBlockCreate(blocks,
                          "join", CurFn), "ifTrue", CurFn), "ifFalse", CurFn)
       IN  /\ blocks' = emitterBranchOnValue(created, block, ifTrue, ifFalse)
           /\ stack' = Append(stack, Frame("then", continuation, continuation, 0, 0, ifFalse,
                                           0, 0, block, FALSE))
           /\ block' = ifTrue
    /\ UNCHANGED <<arch, pc, returnTo, breakTo, continueTo, fn, offset, frame, regs,
                   lastReturn, loops, xfers, atEntry>>

\* the true arm's emitterCode ends; emitterBranch starts the false arm
emitterBranchElse ==
    /\ pc = "body"
    /\ Top.kind = "then"
    /\ blocks' = CodeEnd(blocks, block, Top.cont)
    /\ stack' = Append(Pop, [Top EXCEPT !.kind = "else"])
    /\ block' = Top.other
    /\ UNCHANGED <<arch, pc, fuel, returnTo, breakTo, continueTo, fn, offset, frame, regs,
                   lastReturn, loops, xfers, atEntry>>

\* the false arm's emitterCode ends; emitterBranch returns continuation
emitterBranchEnd ==
    /\ pc = "body"
    /\ Top.kind = "else"
    /\ blocks' = CodeEnd(blocks, block, Top.cont)
    /\ stack' = Pop
    /\ block' = Top.continuation
    /\ UNCHANGED <<arch, pc, fuel, returnTo, breakTo, continueTo, fn, offset, frame, regs,
                   lastReturn, loops, xfers, atEntry>>

\* faulty variant: a do-while tested on entry like a while
LoopEntryAlwaysTest(bs, isDo, blk, body, continuation) ==
    emitterBranchOnValue(bs, blk, body, continuation)

\* the edge into the loop: do-while jumps, while tests
LoopEntry(bs, isDo, blk, body, continuation) ==
    IF isDo THEN irJump(bs, blk, body)
    ELSE emitterBranchOnValue(bs, blk, body, continuation)

\* faulty variant: the re-test always goes back into the body
LoopRetestNoExit(bs, check, body, continuation) == irJump(bs, check, body)

\* the re-entrant condition emitted into loopCheck / iterate
LoopRetest(bs, check, body, continuation) == emitterBranchOnValue(bs, check, body, continuation)

\* emitterLine, astLoop: emitterLoop up to its emitterCode
emitterLoop(isDo) ==
    /\ Statement
    /\ LET continuation == NewBlock
           body == NewBlock + 1
           loopCheck == NewBlock + 2
           created == irBlockCreate(irBlockCreate(irBlockCreate(blocks,
                          "exit", CurFn), "body", CurFn), "check", CurFn)
       IN  /\ blocks' = LoopEntry(created, isDo, block, body, continuation)
           /\ stack' = Append(stack, Frame("loop", loopCheck, continuation, body, loopCheck, 0,
                                           breakTo, continueTo, block, isDo))
           /\ breakTo' = continuation
           /\ continueTo' = loopCheck
           /\ block' = body
    /\ UNCHANGED <<arch, pc, returnTo, fn, offset, frame, regs, lastReturn, loops, xfers,
                   atEntry>>

\* faulty variant: the old break target is not restored
KeepBreakTo(top) == breakTo

\* ctx->breakTo = oldBreakTo
RestoreBreakTo(top) == top.oldBreakTo

\* ctx->continueTo = oldContinueTo
RestoreContinueTo(top) == top.oldContinueTo

\* the body's emitterCode ends; emitterLoop restores the targets, emits the re-test
emitterLoopEnd ==
    /\ pc = "body"
    /\ Top.kind = "loop"
    /\ blocks' = LoopRetest(CodeEnd(blocks, block, Top.cont), Top.check, Top.body,
                            Top.continuation)
    /\ breakTo' = RestoreBreakTo(Top)
    /\ continueTo' = RestoreContinueTo(Top)
    /\ stack' = Pop
    /\ block' = Top.continuation
    /\ loops' = loops \cup {[tag |-> "astLoop", isDo |-> Top.isDo, from |-> Top.from,
                             body |-> Top.body, check |-> Top.check,
                             continuation |-> Top.continuation, last |-> block,
                             returned |-> Top.continuation]}
    /\ UNCHANGED <<arch, pc, fuel, returnTo, fn, offset, frame, regs, lastReturn, xfers,
                   atEntry>>

\* emitterLine, astIter: emitterIter up to its emitterCode
emitterIter ==
    /\ Statement
    /\ LET continuation == NewBlock
           body == NewBlock + 1
           iterate == NewBlock + 2
           created == irBlockCreate(irBlockCreate(irBlockCreate(blocks,
                          "exit", CurFn), "body", CurFn), "iterate", CurFn)
       IN  /\ blocks' = emitterBranchOnValue(emitterValue(created, block), block, body,
                                             continuation)
           /\ stack' = Append(stack, Frame("iter", iterate, continuation, body, iterate, 0,
                                           breakTo, continueTo, block, FALSE))
           /\ breakTo' = continuation
           /\ continueTo' = iterate
           /\ block' = body
    /\ UNCHANGED <<arch, pc, returnTo, fn, offset, frame, regs, lastReturn, loops, xfers,
                   atEntry>>

\* the body's emitterCode ends; emitterIter restores the targets, emits step and re-test
emitterIterEnd ==
    /\ pc = "body"
    /\ Top.kind = "iter"
    /\ blocks' = LoopRetest(emitterValue(CodeEnd(blocks, block, Top.cont), Top.check),
                            Top.check, Top.body, Top.continuation)
    /\ breakTo' = RestoreBreakTo(Top)
    /\ continueTo' = RestoreContinueTo(Top)
    /\ stack' = Pop
    /\ block' = Top.continuation
    /\ loops' = loops \cup {[tag |-> "astIter", isDo |-> FALSE, from |-> Top.from,
                             body |-> Top.body, check |-> Top.check,
                             continuation |-> Top.continuation, last |-> block,
                             returned |-> Top.continuation]}
    /\ UNCHANGED <<arch, pc, fuel, returnTo, fn, offset, frame, regs, lastReturn, xfers,
                   atEntry>>

\* emitterLine, astCode: a fresh continuation, then emitterCode
emitterLineCode ==
    /\ Statement
    /\ blocks' = irBlockCreate(blocks, "codecont", CurFn)
    /\ stack' = Append(stack, Frame("code", NewBlock, NewBlock, 0, 0, 0, 0, 0, block, FALSE))
    /\ UNCHANGED <<arch, pc, returnTo, breakTo, continueTo, block, fn, offset, frame, regs,
                   lastReturn, loops, xfers, atEntry>>

\* the nested emitterCode ends; emitterLine returns the continuation
emitterLineCodeEnd ==
    /\ pc = "body"
    /\ Top.kind = "code"
    /\ blocks' = CodeEnd(blocks, block, Top.cont)
    /\ stack' = Pop
    /\ block' = Top.continuation
    /\ UNCHANGED <<arch, pc, fuel, returnTo, breakTo, continueTo, fn, offset, frame, regs,
                   lastReturn, loops, xfers, atEntry>>

\* faulty variant: lowering goes on in the block just terminated
AfterTerminatorSame(bs, blk) == [blocks |-> bs, continuation |-> blk]

\* continuation = irBlockCreate(ctx->ir) after a return, break or continue
AfterTerminator(bs, blk) ==
    [blocks |-> irBlockCreate(bs, "post", CurFn), continuation |-> Len(bs) + 1]

\* emitterLine, astReturn: emitterReturn, then a fresh block
emitterLineReturn(in) ==
    /\ Statement
    /\ LET r == emitterReturn(arch, regs, in)
           next == AfterTerminator(irJump(IF in.hasExpr THEN emitterValue(blocks, block)
                                           ELSE blocks, block, returnTo), block)
       IN  /\ regs' = r.regs
           /\ lastReturn' = [log |-> r.log, before |-> regs, hasExpr |-> in.hasExpr,
                             retInTemp |-> r.retInTemp, hidden |-> r.hidden,
                             error |-> r.error, n |-> lastReturn.n + 1]
           /\ blocks' = next.blocks
           /\ block' = next.continuation
    /\ UNCHANGED <<arch, pc, returnTo, breakTo, continueTo, stack, fn, offset, frame, loops,
                   xfers, atEntry>>

\* emitterLine, astBreak (a checked AST has it inside a loop or iter only)
emitterLineBreak ==
    /\ Statement
    /\ LoopFrames # {}
    /\ LET next == AfterTerminator(irJump(blocks, block, breakTo), block)
       IN  /\ blocks' = next.blocks
           /\ block' = next.continuation
    /\ xfers' = xfers \cup {[tag |-> "astBreak", from |-> block,
                             loop |-> Innermost.continuation, iter |-> Innermost.kind = "iter",
                             target |-> Innermost.continuation, depth |-> Cardinality(LoopFrames),
                             earlier |-> Cardinality(loops)]}
    /\ UNCHANGED <<arch, pc, returnTo, breakTo, continueTo, stack, fn, offset, frame, regs,
                   lastReturn, loops, atEntry>>

\* emitterLine, astContinue
emitterLineContinue ==
    /\ Statement
    /\ LoopFrames # {}
    /\ LET next == AfterTerminator(irJump(blocks, block, continueTo), block)
       IN  /\ blocks' = next.blocks
           /\ block' = next.continuation
    /\ xfers' = xfers \cup {[tag |-> "astContinue", from |-> block,
                             loop |-> Innermost.continuation, iter |-> Innermost.kind = "iter",
                             target |-> Innermost.check, depth |-> Cardinality(LoopFrames),
                             earlier |-> Cardinality(loops)]}
    /\ UNCHANGED <<arch, pc, returnTo, breakTo, continueTo, stack, fn, offset, frame, regs,
                   lastReturn, loops, atEntry>>

\* emitterLine, astDecl
emitterLineDecl ==
    /\ Statement
    /\ blocks' = emitterValue(blocks, block)
    /\ UNCHANGED <<arch, pc, returnTo, breakTo, continueTo, block, stack, fn, offset, frame,
                   regs, lastReturn, loops, xfers, atEntry>>

\* emitterLine, a value tag
emitterLineValue ==
    /\ Statement
    /\ blocks' = emitterValue(blocks, block)
    /\ UNCHANGED <<arch, pc, returnTo, breakTo, continueTo, block, stack, fn, offset, frame,
                   regs, lastReturn, loops, xfers, atEntry>>

\* emitterLine, astEmpty
emitterLineEmpty ==
    /\ Statement
    /\ UNCHANGED <<arch, pc, returnTo, breakTo, continueTo, blocks, block, stack, fn, offset,
                   frame, regs, lastReturn, loops, xfers, atEntry>>

(***************************************************************************)
(* Specifications                                                          *)
(***************************************************************************)
\* Control flow: any statements, in functions without symbols
CfgFns == {[ret |-> "word", syms |-> <<>>]}

CfgReturnNodes ==
    {ReturnNode(FALSE, "void", Operand("lit", "none"), "rax"),
     ReturnNode(TRUE, "word", Operand("reg", "rax"), "rax")}

Init == InitWith({[wordsize |-> 8]}, MaxNodes, {{}})

Next ==
    \/ emitterModule(CfgFns)
    \/ emitterFnImplEnd
    \/ emitterModuleEnd
    \/ emitterBranch
    \/ emitterBranchElse
    \/ emitterBranchEnd
    \/ \E isDo \in BOOLEAN : emitterLoop(isDo)
    \/ emitterLoopEnd
    \/ emitterIter
    \/ emitterIterEnd
    \/ emitterLineCode
    \/ emitterLineCodeEnd
    \/ \E in \in CfgReturnNodes : emitterLineReturn(in)
    \/ emitterLineBreak
    \/ emitterLineContinue
    \/ emitterLineDecl
    \/ emitterLineValue
    \/ emitterLineEmpty

Spec == Init /\ [][Next]_vars

\* Frame layout: a module of one fn-impl node, with any symbol table and an
\* empty body
FrameFns == {[ret |-> r, syms |-> t] : r \in RetTypes, t \in SymTables(MaxSyms)}

InitFrame == InitWith(Architectures, 1, {{}})

NextFrame ==
    \/ emitterModule(FrameFns)
    \/ emitterFnImplEnd
    \/ emitterModuleEnd

SpecFrame == InitFrame /\ [][NextFrame]_vars

\* Returns: one fn-impl node and MaxReturns return statements (or further
\* functions), the functions with parameters only; the return register may be
\* held by someone else throughout
ReturnFns ==
    {[ret |-> r, syms |-> t] : r \in RetTypes,
        t \in {u \in SymTables(MaxParams) : \A i \in 1..Len(u) : u[i].tag = "symParam"}}

InitReturn == InitWith(Architectures, 1 + MaxReturns, {{}, {"rax"}})

NextReturn ==
    \/ emitterModule(ReturnFns)
    \/ emitterFnImplEnd
    \/ emitterModuleEnd
    \/ \E in \in ReturnNodes(arch, regs, fn) : emitterLineReturn(in)

SpecReturn == InitReturn /\ [][NextReturn]_vars

(***************************************************************************)
(* What the properties are stated with                                     *)
(***************************************************************************)
\* the sum of the sizes of the symbols S of table syms
SumSizes(a, syms, S) ==
    IF S = {} THEN 0
    ELSE LET i == CHOOSE x \in S : TRUE
         IN  typeGetSize(a, syms[i].dt) + SumSizes(a, syms, S \ {i})

Terminators(b) == {k \in 1..Len(b.instrs) : IsTerminator(b.instrs[k])}

\* the blocks a block's jumps and branches lead to
Successors(bs, i) ==
    UNION {IF bs[i].instrs[k].tag = "jump" THEN {bs[i].instrs[k].a}
           ELSE IF bs[i].instrs[k].tag = "branch" THEN {bs[i].instrs[k].a, bs[i].instrs[k].b}
           ELSE {} : k \in 1..Len(bs[i].instrs)}

ReachFrom(bs, S) ==
    LET N == S \cup UNION {Successors(bs, i) : i \in S}
    IN  IF N = S THEN S ELSE ReachFrom(bs, N)

\* the functions emitterFnImpl has returned from
Finished == IF pc = "body" THEN 1..(CurFn - 1) ELSE 1..CurFn

BlocksOf(f) == {i \in 1..Len(blocks) : blocks[i].fn = f}

EntryOf(f) == CHOOSE i \in BlocksOf(f) : blocks[i].kind = "entry"

\* the log of allocator calls from event k on, replayed on register file rs
Replay(log, rs, k) ==
    IF k > Len(log) THEN [ok |-> TRUE, regs |-> rs]
    ELSE LET r == log[k][2]
         IN  IF log[k][1] = "alloc"
             THEN IF rs[r] THEN [ok |-> FALSE, regs |-> rs]
                  ELSE Replay(log, [rs EXCEPT ![r] = TRUE], k + 1)
             ELSE IF ~rs[r] THEN [ok |-> FALSE, regs |-> rs]
                  ELSE Replay(log, [rs EXCEPT ![r] = FALSE], k + 1)

Last(q) == q[Len(q)]

Jump(to) == Instr("jump", to, 0)

Branch(ifTrue, ifFalse) == Instr("branch", ifTrue, ifFalse)

FinishedBlocks == {i \in 1..Len(blocks) : blocks[i].fn \in Finished}

(***************************************************************************)
(* Control flow (specification Spec)                                       *)
(***************************************************************************)
\* C1: once emitterFnImpl has returned, every block it created holds exactly
\* one terminator and that terminator is the last thing in the block: no
\* block is left open, none is terminated twice, nothing follows a terminator.
C1_OneTerminator ==
    \A i \in FinishedBlocks :
        /\ blocks[i].instrs # <<>>
        /\ Terminators(blocks[i]) = {Len(blocks[i].instrs)}

\* a finished function whose body held a return/break/continue, a loop and a
\* branch or nested code
C1_Witness ==
    /\ pc = "module"
    /\ \E i, j, k \in FinishedBlocks :
        /\ blocks[i].kind = "post"
        /\ blocks[j].kind \in {"check", "iterate"}
        /\ blocks[k].kind \in {"join", "codecont"}

\* C2: when emitterFnImpl has returned (emitterModule's loop, or the module
\* lowerer done), returnTo, breakTo and continueTo hold the values they held
\* before the call, returnTo is null there and non-null inside a body.
C2_TargetsRestored ==
    /\ pc # "body" =>
        /\ returnTo = atEntry.returnTo
        /\ breakTo = atEntry.breakTo
        /\ continueTo = atEntry.continueTo
        /\ returnTo = 0
    /\ pc = "body" => returnTo # 0

\* C3 as stated: every block of a finished function is reachable from the
\* function's entry block or is the fresh block made after a
\* return/break/continue.
C3_ReachableOrPost ==
    \A f \in Finished : \A i \in BlocksOf(f) :
        \/ i \in ReachFrom(blocks, {EntryOf(f)})
        \/ blocks[i].kind = "post"

\* C3 as amended: every block of a finished function is reachable from the
\* function's entry block or from one of its post-terminator blocks.
C3_ReachableFromEntryOrPost ==
    \A f \in Finished :
        BlocksOf(f) \subseteq
            ReachFrom(blocks, {EntryOf(f)} \cup {i \in BlocksOf(f) : blocks[i].kind = "post"})

\* a finished function with a branch join or loop exit that the entry block
\* does not reach, and a post-terminator block that does reach it
C3_Witness ==
    /\ pc = "module"
    /\ \E f \in Finished : \E i, j \in BlocksOf(f) :
        /\ blocks[i].kind \in {"join", "exit"}
        /\ i \notin ReachFrom(blocks, {EntryOf(f)})
        /\ blocks[j].kind = "post"
        /\ i \in ReachFrom(blocks, {j})

\* C6: every break jumps to the exit block of the innermost loop or iter
\* around it, every continue to that construct's loopCheck (a loop) or
\* iterate (an iter) block, and that exit block is what the construct's
\* lowerer returns.
C6_BreakContinueTargets ==
    \A x \in xfers :
        /\ Last(blocks[x.from].instrs) = Jump(x.target)
        /\ blocks[x.target].kind =
              (IF x.tag = "astBreak" THEN "exit" ELSE IF x.iter THEN "iterate" ELSE "check")
        /\ \A l \in loops : l.continuation = x.loop =>
              /\ l.returned = x.loop
              /\ x.tag = "astContinue" => l.check = x.target
              /\ l.tag = (IF x.iter THEN "astIter" ELSE "astLoop")

\* a break directly in an outer loop's body, after an inner loop of that
\* body has been lowered, the outer loop finished too
C6_Witness ==
    \E x \in xfers : \E inner, outer \in loops :
        /\ x.tag = "astBreak"
        /\ x.depth = 1
        /\ outer.continuation = x.loop
        /\ inner.from = outer.body
        /\ x.from = inner.continuation

\* C8: a lowered loop has the incoming block end in a jump to body (do-while)
\* or in a branch to body or continuation (while); in both the body's last
\* block jumps to loopCheck, loopCheck branches to body or continuation, and
\* continuation is the block returned.
C8_LoopShape ==
    \A l \in loops : l.tag = "astLoop" =>
        /\ Last(blocks[l.from].instrs) =
              (IF l.isDo THEN Jump(l.body) ELSE Branch(l.body, l.continuation))
        /\ Last(blocks[l.last].instrs) = Jump(l.check)
        /\ blocks[l.check].instrs = <<Branch(l.body, l.continuation)>>
        /\ l.returned = l.continuation
        /\ Cardinality({l.continuation, l.body, l.check}) = 3

\* a while and a do-while lowered in one function
C8_Witness ==
    \E l, m \in loops : l.tag = "astLoop" /\ m.tag = "astLoop" /\ l.isDo /\ ~m.isDo

(***************************************************************************)
(* Frame layout (specification SpecFrame)                                  *)
(***************************************************************************)
Lowered == CurFn > 0

Params == {i \in 1..Len(fn.syms) : fn.syms[i].tag = "symParam"}

Ids == {i \in 1..Len(fn.syms) : fn.syms[i].tag = "symId"}

Size(i) == typeGetSize(arch, fn.syms[i].dt)

\* 2*word_size, plus word_size iff the return type is larger than a word
FirstParamOffset ==
    2 * arch.wordsize + (IF typeGetSize(arch, fn.ret) > arch.wordsize THEN arch.wordsize ELSE 0)

\* C4: params get positive offsets in declaration order: the first
\* 2*word_size (+ word_size iff the return is large), each later one the
\* previous offset plus the previous size; the running offset ends at that
\* base plus the sum of all param sizes; no symbol after the params is
\* given a param offset.
C4_ParamOffsets ==
    Lowered =>
        /\ \A p \in Params :
              offset[p] = FirstParamOffset + SumSizes(arch, fn.syms, {q \in Params : q < p})
        /\ frame.lastOffset = FirstParamOffset + SumSizes(arch, fn.syms, Params)
        /\ \A i \in 1..Len(fn.syms) : i \notin Params => offset[i] <= 0

\* two params of different sizes under a large return, followed by a local
C4_Witness ==
    /\ Lowered
    /\ fn.ret = "pair"
    /\ Cardinality(Params) >= 2
    /\ fn.syms[1].dt = "char"
    /\ Ids # {}

\* the stacksize operand of the function's prologue
PrologueStacksize == blocks[EntryOf(CurFn)].instrs[1].a

Overlap(i, j) == offset[i] < offset[j] + Size(j) /\ offset[j] < offset[i] + Size(i)

\* C5: every local id has offset < 0 and -offset <= stacksize, the value
\* handed to the prologue, and no two locals of one scope overlap.
C5_LocalsInFrame ==
    Lowered =>
        /\ frame.stacksize = PrologueStacksize
        /\ \A i \in Ids : offset[i] < 0 /\ -offset[i] <= PrologueStacksize
        /\ \A i, j \in Ids :
              i # j /\ fn.syms[i].parent = fn.syms[j].parent => ~Overlap(i, j)

\* two locals in one nested scope, after a local of the function's own scope
C5_Witness ==
    /\ Lowered
    /\ \E i, j, k \in Ids :
        /\ i < j
        /\ fn.syms[i].parent = fn.syms[j].parent
        /\ fn.syms[i].parent # 0
        /\ fn.syms[k].parent = 0

\* C9: each id's offset is minus the sum of the sizes of the ids up to and
\* including it in pre-order over the whole scope tree, and stacksize is the
\* sum of the sizes of all ids: sibling scopes share no frame space.
C9_CumulativeOffsets ==
    Lowered =>
        /\ \A i \in Ids : offset[i] = -SumSizes(arch, fn.syms, {j \in Ids : j <= i})
        /\ PrologueStacksize = SumSizes(arch, fn.syms, Ids)

\* two sibling scopes, each holding a local
C9_Witness ==
    /\ Lowered
    /\ \E i, j \in Ids :
        /\ i < j
        /\ fn.syms[i].parent # fn.syms[j].parent
        /\ fn.syms[i].parent # 0 /\ fn.syms[j].parent # 0
        /\ fn.syms[fn.syms[i].parent].parent = fn.syms[fn.syms[j].parent].parent

(***************************************************************************)
(* Returns (specification SpecReturn)                                      *)
(***************************************************************************)
\* C7: in every emitterReturn each allocator call is legal (no register is
\* taken while in use, none is freed while free) and the register file ends
\* as it began: whatever was allocated has been freed exactly once.
C7_RegistersPaired ==
    lastReturn.n > 0 =>
        LET r == Replay(lastReturn.log, lastReturn.before, 1)
        IN  /\ r.ok
            /\ r.regs = lastReturn.before
            /\ regs = lastReturn.before

\* a large value returned through the hidden pointer: the value's register,
\* tempRef and the return register were each taken and freed
C7_Witness ==
    /\ pc = "body"
    /\ lastReturn.retInTemp
    /\ Len(lastReturn.log) = 6
    /\ \E i \in 1..Len(blocks) :
          blocks[i].instrs # <<>> /\ Last(blocks[i].instrs) = Jump(returnTo)

====
